---- MODULE Spec2Model ----
(***************************************************************************)
(* Model of scripts/monitor.py: the serial port monitor.  One run of       *)
(* main(): open the serial port, optionally open the log file, then the    *)
(* poll / readline / print / log loop, the three except handlers and the   *)
(* finally block.  The serial driver, the filesystem and the terminal are  *)
(* the environment: every call into them either succeeds or raises.        *)
(***************************************************************************)
EXTENDS Naturals, Sequences, FiniteSets

VARIABLES
    pc,          \* the statement main() is about to execute
    argLog,      \* args.log is set (a non-empty --log path was given)
    serBound,    \* 'ser' in locals()
    serOpen,     \* the OS serial handle is open (ser.is_open)
    logFile,     \* log_file: "None", or the file object, "open" or "closed"
    prior,       \* the contents of the log path when the run started
    file,        \* the contents of the log path on disk
    logBuf,      \* written to log_file, not flushed yet
    stdout,      \* what the terminal has received from sys.stdout
    outBuf,      \* printed to sys.stdout, not flushed yet
    stderr,      \* the messages on sys.stderr, in order
    received,    \* the lines read so far (decoded and stripped), in order
    line,        \* the local variable line
    exc,         \* what leaves the try statement: "none", "return", "exit1"
    cause,       \* what ended the try body: "none", "interrupt" or the failed call
    exitCode     \* the process exit status, NoExit while running

vars == <<pc, argLog, serBound, serOpen, logFile, prior, file, logBuf, stdout,
          outBuf, stderr, received, line, exc, cause, exitCode>>

----------------------------------------------------------------------------
(* Bounds *)

\* readline() results one run processes
MaxReads == 3
\* bytes one readline() result holds
MaxRaw == 2

----------------------------------------------------------------------------
(* Bytes and text *)

NL == "NL"
SP == "SP"
BAD == "BAD"

\* A letter, a space, a byte that is invalid in UTF-8, and the line terminator.
Bytes == {"A", SP, BAD, NL}

\* Trailing characters str.rstrip() removes.
Whitespace == {SP, NL}

\* What ser.readline() can return once in_waiting is non-zero: at least one
\* byte, up to and including the first line terminator, or without one when
\* the read timeout ends the read.
RawLines ==
    { r \in UNION { [1..n -> Bytes] : n \in 1..MaxRaw } :
        \A i \in 1..(Len(r) - 1) : r[i] # NL }

\* bytes.decode('utf-8', errors='ignore'): invalid bytes are dropped.
Decode(bytes) == SelectSeq(bytes, LAMBDA b : b # BAD)

RECURSIVE Rstrip(_)
\* str.rstrip(): remove trailing whitespace.
Rstrip(s) ==
    IF s = <<>> THEN <<>>
    ELSE IF s[Len(s)] \in Whitespace THEN Rstrip(SubSeq(s, 1, Len(s) - 1))
    ELSE s

\* Mutant of IsForwarded: the `if line:` test is missing.
IsForwardedAlways(l) == TRUE

\* `if line:` -- the line is forwarded only when it is not empty.
IsForwarded(l) == l # <<>>

\* print(line): the line and a newline.
PrintRecord(l) == l \o <<NL>>

\* Mutant of LogRecord: the line terminator is missing.
LogRecordBare(l) == l

\* log_file.write(line + '\n')
LogRecord(l) == l \o <<NL>>

\* What an earlier run can have left at the log path: nothing, or its lines.
PriorContents == { <<>>, <<"A", NL>> }

NoExit == "running"

TryBody == {"open_ser", "open_log", "poll", "read", "print", "flush_out",
            "log_write", "log_flush"}

----------------------------------------------------------------------------
Init ==
    /\ pc = "open_ser"
    /\ argLog \in BOOLEAN
    /\ serBound = FALSE
    /\ serOpen = FALSE
    /\ logFile = "None"
    /\ prior \in PriorContents
    /\ file = prior
    /\ logBuf = <<>>
    /\ stdout = <<>>
    /\ outBuf = <<>>
    /\ stderr = <<>>
    /\ received = <<>>
    /\ line = <<>>
    /\ exc = "none"
    /\ cause = "none"
    /\ exitCode = NoExit

\* An exception raised inside the try body: control moves to its handler.
Raise(handler, what) ==
    /\ pc' = handler
    /\ cause' = what

\* ser = serial.Serial(args.port, args.baud, timeout=1) and the two messages.
OpenSerial ==
    /\ pc = "open_ser"
    /\ \/ /\ serBound' = TRUE
          /\ serOpen' = TRUE
          /\ stderr' = stderr \o <<"connected">>
          /\ pc' = "open_log"
          /\ UNCHANGED cause
       \/ /\ Raise("h_fnf", "ser_open_fnf")
          /\ UNCHANGED <<serBound, serOpen, stderr>>
       \/ /\ Raise("h_exc", "ser_open_err")
          /\ UNCHANGED <<serBound, serOpen, stderr>>
    /\ UNCHANGED <<argLog, logFile, prior, file, logBuf, stdout, outBuf,
                   received, line, exc, exitCode>>

\* Mutant of OpenLog: the file is opened in append mode.
OpenLogAppend ==
    /\ pc = "open_log"
    /\ IF argLog
       THEN /\ logFile' = "open"
            /\ stderr' = stderr \o <<"logging">>
       ELSE UNCHANGED <<logFile, stderr>>
    /\ pc' = "poll"
    /\ UNCHANGED <<argLog, serBound, serOpen, prior, file, logBuf, stdout,
                   outBuf, received, line, exc, cause, exitCode>>

\* if args.log: log_file = open(args.log, 'w') and the message.
OpenLog ==
    /\ pc = "open_log"
    /\ IF argLog
       THEN \/ /\ logFile' = "open"
               /\ file' = <<>>
               /\ stderr' = stderr \o <<"logging">>
               /\ pc' = "poll"
               /\ UNCHANGED cause
            \/ /\ Raise("h_fnf", "log_open_fnf")
               /\ UNCHANGED <<logFile, file, stderr>>
            \/ /\ Raise("h_exc", "log_open_err")
               /\ UNCHANGED <<logFile, file, stderr>>
       ELSE /\ pc' = "poll"
            /\ UNCHANGED <<logFile, file, stderr, cause>>
    /\ UNCHANGED <<argLog, serBound, serOpen, prior, logBuf, stdout, outBuf,
                   received, line, exc, exitCode>>

\* while True: if ser.in_waiting:
Poll ==
    /\ pc = "poll"
    /\ \/ /\ Len(received) < MaxReads
          /\ pc' = "read"
          /\ UNCHANGED cause
       \/ UNCHANGED <<pc, cause>>
       \/ Raise("h_exc", "read")
    /\ UNCHANGED <<argLog, serBound, serOpen, logFile, prior, file, logBuf,
                   stdout, outBuf, stderr, received, line, exc, exitCode>>

\* line = ser.readline().decode('utf-8', errors='ignore').rstrip(); if line:
ReadLine ==
    /\ pc = "read"
    /\ \/ \E raw \in RawLines :
            /\ line' = Rstrip(Decode(raw))
            /\ received' = Append(received, line')
            /\ pc' = IF IsForwarded(line') THEN "print" ELSE "poll"
            /\ UNCHANGED cause
       \/ /\ Raise("h_exc", "read")
          /\ UNCHANGED <<received, line>>
    /\ UNCHANGED <<argLog, serBound, serOpen, logFile, prior, file, logBuf,
                   stdout, outBuf, stderr, exc, exitCode>>

\* print(line)
PrintLine ==
    /\ pc = "print"
    /\ \/ /\ outBuf' = outBuf \o PrintRecord(line)
          /\ pc' = "flush_out"
          /\ UNCHANGED cause
       \/ /\ Raise("h_exc", "stdout")
          /\ UNCHANGED outBuf
    /\ UNCHANGED <<argLog, serBound, serOpen, logFile, prior, file, logBuf,
                   stdout, stderr, received, line, exc, exitCode>>

\* sys.stdout.flush(); if log_file:
FlushStdout ==
    /\ pc = "flush_out"
    /\ \/ /\ stdout' = stdout \o outBuf
          /\ outBuf' = <<>>
          /\ pc' = IF logFile # "None" THEN "log_write" ELSE "poll"
          /\ UNCHANGED cause
       \/ /\ Raise("h_exc", "stdout")
          /\ outBuf' = <<>>
          /\ UNCHANGED stdout
    /\ UNCHANGED <<argLog, serBound, serOpen, logFile, prior, file, logBuf,
                   stderr, received, line, exc, exitCode>>

\* log_file.write(line + '\n')
LogWrite ==
    /\ pc = "log_write"
    /\ \/ /\ logBuf' = logBuf \o LogRecord(line)
          /\ pc' = "log_flush"
          /\ UNCHANGED cause
       \/ /\ Raise("h_exc", "log_write")
          /\ UNCHANGED logBuf
    /\ UNCHANGED <<argLog, serBound, serOpen, logFile, prior, file, stdout,
                   outBuf, stderr, received, line, exc, exitCode>>

\* Mutant of LogFlush: the flush is missing, the log is left buffered.
LogFlushSkipped ==
    /\ pc = "log_flush"
    /\ pc' = "poll"
    /\ UNCHANGED <<argLog, serBound, serOpen, logFile, prior, file, logBuf,
                   stdout, outBuf, stderr, received, line, exc, cause,
                   exitCode>>

\* log_file.flush()
LogFlush ==
    /\ pc = "log_flush"
    /\ \/ /\ file' = file \o logBuf
          /\ logBuf' = <<>>
          /\ pc' = "poll"
          /\ UNCHANGED cause
       \/ /\ Raise("h_exc", "log_write")
          /\ UNCHANGED <<file, logBuf>>
    /\ UNCHANGED <<argLog, serBound, serOpen, logFile, prior, stdout, outBuf,
                   stderr, received, line, exc, exitCode>>

\* Ctrl-C while the try body runs: KeyboardInterrupt is raised at the
\* statement being executed.
Interrupt ==
    /\ pc \in TryBody
    /\ Raise("h_kbd", "interrupt")
    /\ UNCHANGED <<argLog, serBound, serOpen, logFile, prior, file, logBuf,
                   stdout, outBuf, stderr, received, line, exc, exitCode>>

\* except KeyboardInterrupt: the two messages, then fall out of the try.
HandleKeyboardInterrupt ==
    /\ pc = "h_kbd"
    /\ stderr' = stderr \o <<"stopped">>
    /\ exc' = "return"
    /\ pc' = "fin_log"
    /\ UNCHANGED <<argLog, serBound, serOpen, logFile, prior, file, logBuf,
                   stdout, outBuf, received, line, cause, exitCode>>

\* Mutant of HandleFileNotFound: sys.exit(1) is missing.
HandleFileNotFoundNoExit ==
    /\ pc = "h_fnf"
    /\ stderr' = stderr \o <<"port_not_found">>
    /\ exc' = "return"
    /\ pc' = "fin_log"
    /\ UNCHANGED <<argLog, serBound, serOpen, logFile, prior, file, logBuf,
                   stdout, outBuf, received, line, cause, exitCode>>

\* except FileNotFoundError: the two messages, sys.exit(1).
HandleFileNotFound ==
    /\ pc = "h_fnf"
    /\ stderr' = stderr \o <<"port_not_found">>
    /\ exc' = "exit1"
    /\ pc' = "fin_log"
    /\ UNCHANGED <<argLog, serBound, serOpen, logFile, prior, file, logBuf,
                   stdout, outBuf, received, line, cause, exitCode>>

\* except Exception as e: the message, sys.exit(1).
HandleException ==
    /\ pc = "h_exc"
    /\ stderr' = stderr \o <<"error">>
    /\ exc' = "exit1"
    /\ pc' = "fin_log"
    /\ UNCHANGED <<argLog, serBound, serOpen, logFile, prior, file, logBuf,
                   stdout, outBuf, received, line, cause, exitCode>>

\* The interpreter exits: sys.stdout is flushed and the status is set.
Exit(code) ==
    /\ pc' = "done"
    /\ exitCode' = code
    /\ stdout' = stdout \o outBuf
    /\ outBuf' = <<>>

\* finally: if log_file: log_file.close()
\* close() flushes what is buffered and releases the file; when it raises,
\* the file is released all the same, the exception replaces the pending
\* one and leaves main(): the traceback is printed and the status is 1.
FinallyLog ==
    /\ pc = "fin_log"
    /\ IF logFile # "None"
       THEN \/ /\ file' = file \o logBuf
               /\ logBuf' = <<>>
               /\ logFile' = "closed"
               /\ pc' = "fin_ser"
               /\ UNCHANGED <<stderr, stdout, outBuf, exitCode>>
            \/ /\ logFile' = "closed"
               /\ logBuf' = <<>>
               /\ stderr' = stderr \o <<"traceback">>
               /\ Exit(1)
               /\ UNCHANGED file
       ELSE /\ pc' = "fin_ser"
            /\ UNCHANGED <<file, logBuf, logFile, stderr, stdout, outBuf,
                           exitCode>>
    /\ UNCHANGED <<argLog, serBound, serOpen, prior, received, line, exc,
                   cause>>

\* finally: if 'ser' in locals() and ser.is_open: ser.close()
\* then main() returns (status 0) or SystemExit(1) leaves it (status 1).
FinallySerial ==
    /\ pc = "fin_ser"
    /\ serOpen' = IF serBound /\ serOpen THEN FALSE ELSE serOpen
    /\ Exit(IF exc = "exit1" THEN 1 ELSE 0)
    /\ UNCHANGED <<argLog, serBound, logFile, prior, file, logBuf, stderr,
                   received, line, exc, cause>>

Next ==
    \/ OpenSerial
    \/ OpenLog
    \/ Poll
    \/ ReadLine
    \/ PrintLine
    \/ FlushStdout
    \/ LogWrite
    \/ LogFlush
    \/ Interrupt
    \/ HandleKeyboardInterrupt
    \/ HandleFileNotFound
    \/ HandleException
    \/ FinallyLog
    \/ FinallySerial

Spec == Init /\ [][Next]_vars

----------------------------------------------------------------------------
(* Vocabulary of the properties *)

Range(f) == { f[i] : i \in DOMAIN f }

IsPrefix(a, b) == Len(a) <= Len(b) /\ SubSeq(b, 1, Len(a)) = a

\* The number of terminated records in a stream.
NumRecords(s) == Cardinality({ i \in DOMAIN s : s[i] = NL })

\* No record of the stream is empty: no terminator opens the stream or
\* follows another terminator.
NoEmptyRecord(s) ==
    \A i \in DOMAIN s : s[i] = NL => (i > 1 /\ s[i - 1] # NL)

RECURSIVE Expected(_)
\* The non-empty lines of ls in order, each followed by one terminator.
Expected(ls) ==
    IF ls = <<>> THEN <<>>
    ELSE (IF Head(ls) # <<>> THEN Head(ls) \o <<NL>> ELSE <<>>)
         \o Expected(Tail(ls))

NonEmpty(ls) == SelectSeq(ls, LAMBDA l : l # <<>>)

SerOpenFailed == cause \in {"ser_open_fnf", "ser_open_err"}

InLine == pc \in {"print", "flush_out", "log_write", "log_flush"}

----------------------------------------------------------------------------
(* C1: while nothing interrupts or fails, each time the loop is back at its  *)
(* poll stdout holds exactly the non-empty lines received so far, in arrival *)
(* order, each with one terminator, and so does the log file when logging    *)
(* is enabled; nothing is left buffered.                                     *)
C1_LinesForwardedInOrder ==
    pc = "poll" =>
        /\ stdout = Expected(received)
        /\ outBuf = <<>>
        /\ (logFile = "open" => file = Expected(received) /\ logBuf = <<>>)

C1_Witness ==
    /\ pc = "poll"
    /\ logFile = "open"
    /\ Len(received) = 2
    /\ received[1] # <<>>
    /\ received[2] # <<>>
    /\ received[1] # received[2]
    /\ file = received[1] \o <<NL>> \o received[2] \o <<NL>>

(* C2: once the serial connection is opened, it is closed when the process  *)
(* has terminated, whichever way the run ended.                              *)
C2_SerialClosedOnExit ==
    (pc = "done" /\ serBound) => ~serOpen

(* C3: on every exit path where both the serial connection and the log file *)
(* were opened, both are closed, each even if closing the other fails.      *)
C3_BothReleased ==
    (pc = "done" /\ serBound /\ logFile # "None") =>
        (logFile = "closed" /\ ~serOpen)

(* C4: an interruption while the loop runs with a log file open ends the run *)
(* with status 0 and the clean-stop message, the log file closed and holding *)
(* every line read from the serial port before the signal.  Stated for the   *)
(* runs whose cleanup raises nothing, where the status is the handler's.     *)
C4_InterruptKeepsLog ==
    (/\ pc = "done"
     /\ cause = "interrupt"
     /\ logFile # "None"
     /\ "traceback" \notin Range(stderr)) =>
        /\ exitCode = 0
        /\ "stopped" \in Range(stderr)
        /\ logFile = "closed"
        /\ file = Expected(received)

(* C5: a failure other than an interruption is reported on the error stream, *)
(* ends the process with status 1 with every opened resource released, and  *)
(* status 0 occurs only on interruption.                                     *)
C5_FailureIsFatal ==
    pc = "done" =>
        /\ cause # "interrupt" =>
              /\ exitCode = 1
              /\ Range(stderr) \cap {"port_not_found", "error"} # {}
              /\ ~serOpen
              /\ logFile # "open"
        /\ exitCode = 0 => cause = "interrupt"

(* C6: when the serial port cannot be opened, the open is not tried again,   *)
(* nothing is written to stdout or to the log file, and the run ends with    *)
(* status 1 and one error message on the error stream.                       *)
C6_PortOpenFailure ==
    SerOpenFailed =>
        /\ pc \in {"h_fnf", "h_exc", "fin_log", "fin_ser", "done"}
        /\ ~serBound /\ ~serOpen
        /\ stdout = <<>> /\ outBuf = <<>>
        /\ logFile = "None" /\ logBuf = <<>> /\ file = prior
        /\ pc = "done" =>
              /\ exitCode = 1
              /\ stderr \in {<<"port_not_found">>, <<"error">>}

C6_Witness ==
    /\ pc = "done"
    /\ cause = "ser_open_fnf"
    /\ argLog
    /\ prior # <<>>
    /\ exitCode = 1

(* C7: with logging enabled, a line reaches the log only after stdout has    *)
(* it, the log is never more than one line behind stdout, and whenever the   *)
(* loop reads a new line the log file holds exactly what stdout holds.       *)
C7_StdoutBeforeLog ==
    logFile # "None" =>
        /\ IsPrefix(file \o logBuf, stdout)
        /\ NumRecords(stdout \o outBuf) <= NumRecords(file) + 1
        /\ pc = "read" =>
              (file = stdout /\ logBuf = <<>> /\ outBuf = <<>>)

C7_Witness ==
    /\ pc = "read"
    /\ logFile = "open"
    /\ NumRecords(stdout) = 2
    /\ file = stdout

(* C8: a line that is empty after decoding and stripping is dropped and the  *)
(* loop goes back to polling; every record of stdout and of the log is       *)
(* non-empty, and there are no more records than non-empty lines received.   *)
C8_EmptyNeverForwarded ==
    /\ NoEmptyRecord(stdout \o outBuf)
    /\ logFile # "None" => NoEmptyRecord(file \o logBuf)
    /\ InLine => line # <<>>
    /\ NumRecords(stdout \o outBuf) <= Len(NonEmpty(received))
    /\ (pc \in TryBody /\ received # <<>> /\ received[Len(received)] = <<>>)
          => pc \in {"poll", "read"}

C8_Witness ==
    /\ pc = "poll"
    /\ logFile = "open"
    /\ Len(received) = 2
    /\ received[1] # <<>>
    /\ received[2] = <<>>
    /\ stdout = received[1] \o <<NL>>
    /\ file = stdout

(* C9 as stated: a run started with a log path truncates the prior contents, *)
(* so when the run has ended the file holds only lines of this run.          *)
C9_AlwaysTruncated ==
    (pc = "done" /\ argLog) => IsPrefix(file, Expected(received))

(* C9 amended: the prior contents are truncated when the run opens the log   *)
(* file, after the serial port was opened; from then on the file holds only  *)
(* lines of this run.  A run that never opens the log file leaves the prior  *)
(* contents as they were.                                                    *)
C9_TruncatedWhenOpened ==
    /\ logFile # "None" => IsPrefix(file, Expected(received))
    /\ logFile = "None" => file = prior

C9_Witness ==
    /\ pc = "done"
    /\ logFile = "closed"
    /\ prior # <<>>
    /\ file # <<>>
    /\ file # prior
    /\ file = Expected(received)

(* C10: the 'Serial port ... not found' report appears only when opening   *)
(* the serial port failed.                                                   *)
C10_NotFoundMeansSerial ==
    "port_not_found" \in Range(stderr) => cause = "ser_open_fnf"

====
